---- MODULE Spec2Model ----
(***************************************************************************)
(* exportSurvivalData.py: survival-assay counts from a spreadsheet are     *)
(* filtered by temperature, sex and exclude flag and expanded into one     *)
(* row per counted worm, then written as csv.                              *)
(*                                                                         *)
(* Strings the code inspects character by character (column names) are     *)
(* sequences of one-character strings.  A table is a record of its column  *)
(* names in order and its rows in order; a row keeps its index label and   *)
(* maps each column name to a cell.                                        *)
(***************************************************************************)
EXTENDS Integers, Sequences, FiniteSets, TLC

\* Largest number of rows of the spreadsheet, largest count in one Day cell.
MaxRows == 2
MaxCount == 1

lowTemp == 23
midTemp == 30
highTemp == 37

VARIABLES
    readable,      \* whether read_excel can read the file at fp
    spreadsheet,   \* the table stored in the file at fp
    sf,            \* main: the sex filter returned by filter_sex
    pc,            \* main: the statement about to run
    err,           \* the exception that ended the run, "" while none
    datatable,     \* main: the loaded table
    lowdata, middata, highdata,   \* main: the three filtered tables
    dayNames,      \* convert_datatable: the Day columns of lowdata
    d,             \* convert_datatable: position of `day` in dayNames
    cond,          \* convert_datatable: which of the three inner loops runs
    n,             \* convert_datatable: the bound of the running range()
    i,             \* convert_datatable: iterations of it already done
    newdatatable,  \* convert_datatable: the output rows appended so far
    origin,        \* history: for each output row, the loop that appended it
    outfile,       \* the file at sp: NoFile, or the rows written
    printed,       \* whether the closing message was printed
    steps          \* history: the steps of main completed, in order

vars == <<readable, spreadsheet, sf, pc, err, datatable, lowdata, middata, highdata,
          dayNames, d, cond, n, i, newdatatable, origin, outfile, printed,
          steps>>

-----------------------------------------------------------------------------
(* Column names *)

temp == <<"t", "e", "m", "p">>
sex == <<"s", "e", "x">>
exclude == <<"e", "x", "c", "l", "u", "d", "e">>
Day3 == <<"D", "a", "y", "3">>
Day10 == <<"D", "a", "y", "1", "0">>
Day3eggs == <<"D", "a", "y", "3", "e", "g", "g", "s">>

\* cn.startswith(prefix)
startswith(cn, prefix) ==
    /\ Len(cn) >= Len(prefix)
    /\ SubSeq(cn, 1, Len(prefix)) = prefix

\* sub in cn, for strings
contains(cn, sub) ==
    \E k \in 1..(Len(cn) - Len(sub) + 1) : SubSeq(cn, k, k + Len(sub) - 1) = sub

\* 'eggs' in cn
hasEggs(cn) == contains(cn, <<"e", "g", "g", "s">>)

\* cn.startswith('Day')
isDay(cn) == startswith(cn, <<"D", "a", "y">>)

\* day[3:], everything after 'Day', in place of day[-1]
lastChar_afterDay(day) == SubSeq(day, 4, Len(day))

\* day[-1], a string of one character
lastChar(day) == SubSeq(day, Len(day), Len(day))

\* str() of the three temperatures
str(t) ==
    CASE t = 23 -> <<"2", "3">>
      [] t = 30 -> <<"3", "0">>
      [] t = 37 -> <<"3", "7">>

-----------------------------------------------------------------------------
(* Tables *)

Range(s) == {s[k] : k \in 1..Len(s)}

NoTable == [columns |-> <<>>, rows |-> <<>>]

\* name in table
HasColumn(table, name) == name \in Range(table.columns)

None == [isNone |-> TRUE, text |-> ""]
Str(s) == [isNone |-> FALSE, text |-> s]

\* The spreadsheets of the runs: temp is always there, sex and exclude are
\* optional, Day columns hold counts, columns with 'eggs' hold anything.
Layouts ==
    { <<temp, Day3>>,
      <<temp, sex, Day3>>,
      <<temp, exclude, Day3>>,
      <<Day3eggs, temp, Day3>>,
      <<temp, Day10, Day3>> }

Temps == {lowTemp, midTemp, highTemp}
Sexes == {"M", "F"}
ExcludeValues == {0, 1, 2}
EggValues == {0, 1}
SexInputs == {"", "M"}

ValuesOf(cn) ==
    IF cn = temp THEN Temps
    ELSE IF cn = sex THEN Sexes
    ELSE IF cn = exclude THEN ExcludeValues
    ELSE IF hasEggs(cn) THEN EggValues
    ELSE 0..MaxCount

\* The tables have up to MaxRows rows; the plainest layout is taken one row
\* further, so that one table can hold counts at all three temperatures.
RowBound(cols) == IF cols = <<temp, Day3>> THEN MaxRows + 1 ELSE MaxRows

RECURSIVE CellsOver(_)
CellsOver(cols) ==
    IF cols = <<>> THEN {<<>>}
    ELSE {(Head(cols) :> v) @@ f :
             v \in ValuesOf(Head(cols)), f \in CellsOver(Tail(cols))}

\* The table with these columns and these cells, labelled 0, 1, ... as
\* read_excel labels them.
MakeTable(cols, cells) ==
    [columns |-> cols,
     rows |-> [k \in 1..Len(cells) |-> [label |-> k - 1, cells |-> cells[k]]]]

-----------------------------------------------------------------------------
(* filter_sex *)

filter_sex(sexFilter) == IF sexFilter = "" THEN None ELSE Str(sexFilter)

-----------------------------------------------------------------------------
(* filter_datatable *)

\* lines 46-50 with cn.startswith('eggs') in place of 'eggs' in cn
columnNames_prefix(table) ==
    SelectSeq(table.columns,
              LAMBDA cn : ~startswith(cn, <<"e", "g", "g", "s">>))

\* lines 46-50
columnNames(table) == SelectSeq(table.columns, LAMBDA cn : ~hasEggs(cn))

\* lines 52-55, one boolean per row; evaluated only when the column exists
sexIDX(table, wormSex) ==
    [k \in 1..Len(table.rows) |->
        IF wormSex # None THEN table.rows[k].cells[sex] = wormSex.text
        ELSE TRUE]

\* lines 57-60 with exclude == 0 in place of exclude != 1
keepIDX_zeroOnly(table) ==
    [k \in 1..Len(table.rows) |->
        IF HasColumn(table, exclude) THEN table.rows[k].cells[exclude] = 0
        ELSE TRUE]

\* lines 57-60
keepIDX(table) ==
    [k \in 1..Len(table.rows) |->
        IF HasColumn(table, exclude) THEN table.rows[k].cells[exclude] # 1
        ELSE TRUE]

\* lines 63-65
tempIDX(table, t) ==
    [k \in 1..Len(table.rows) |-> table.rows[k].cells[temp] = t]

\* the rows of s at the positions where mask holds, in order
RECURSIVE Masked(_, _, _)
Masked(s, mask, k) ==
    IF k > Len(s) THEN <<>>
    ELSE (IF mask[k] THEN <<s[k]>> ELSE <<>>) \o Masked(s, mask, k + 1)

\* table[mask][names], lines 67-69
Select(table, mask, names) ==
    LET kept == Masked(table.rows, mask, 1)
    IN  [columns |-> names,
         rows |-> [k \in 1..Len(kept) |->
                     [label |-> kept[k].label,
                      cells |-> [cn \in Range(names) |-> kept[k].cells[cn]]]]]

\* sexIDX | keepIDX & lowtemp in place of sexIDX & keepIDX & lowtemp
And3_orSex(a, b, c) == [k \in DOMAIN a |-> a[k] \/ (b[k] /\ c[k])]

\* the conjunction of the three masks
And3(a, b, c) == [k \in DOMAIN a |-> a[k] /\ b[k] /\ c[k]]

\* the exception filter_datatable raises on this input, "" when none
filter_error(table, wormSex) ==
    IF wormSex # None /\ ~HasColumn(table, sex) THEN "AttributeError"
    ELSE IF ~HasColumn(table, temp) THEN "AttributeError"
    ELSE ""

\* the table filter_datatable returns for temperature t
filtered(table, wormSex, t) ==
    Select(table,
           And3(sexIDX(table, wormSex), keepIDX(table), tempIDX(table, t)),
           columnNames(table))

\* filter_datatable with line 52 guarded by "and 'sex' in datatable": a
\* missing sex column is then treated as no filter
filter_datatable_guarded(table, wormSex) ==
    LET w == IF HasColumn(table, sex) THEN wormSex ELSE None
    IN  [error |-> "",
         low |-> filtered(table, w, lowTemp),
         mid |-> filtered(table, w, midTemp),
         high |-> filtered(table, w, highTemp)]

filter_datatable(table, wormSex) ==
    IF filter_error(table, wormSex) # ""
    THEN [error |-> filter_error(table, wormSex),
          low |-> NoTable, mid |-> NoTable, high |-> NoTable]
    ELSE [error |-> "",
          low |-> filtered(table, wormSex, lowTemp),
          mid |-> filtered(table, wormSex, midTemp),
          high |-> filtered(table, wormSex, highTemp)]

-----------------------------------------------------------------------------
(* convert_datatable *)

\* table[day].sum()
RECURSIVE SumFrom(_, _, _)
SumFrom(table, day, k) ==
    IF k > Len(table.rows) THEN 0
    ELSE table.rows[k].cells[day] + SumFrom(table, day, k + 1)

ColumnSum(table, day) == SumFrom(table, day, 1)

\* len(range(x))
RangeLen(x) == IF x > 0 THEN x ELSE 0

\* lines 83-86
DayNamesOf(table) == SelectSeq(table.columns, isDay)

\* The cells of the output as to_csv writes them: '' and 1.
Blank == <<>>
One == <<"1">>

\* line 95 left as a copy of line 93
NewRow_highAsMid(day, c) ==
    CASE c = "low"  -> <<lastChar(day), One, Blank, Blank>>
      [] c = "mid"  -> <<lastChar(day), Blank, One, Blank>>
      [] c = "high" -> <<lastChar(day), Blank, One, Blank>>

\* the list assigned at line 91, 93 or 95
NewRow(day, c) ==
    CASE c = "low"  -> <<lastChar(day), One, Blank, Blank>>
      [] c = "mid"  -> <<lastChar(day), Blank, One, Blank>>
      [] c = "high" -> <<lastChar(day), Blank, Blank, One>>

\* the header of newdatatable, line 88
OutColumns ==
    <<(<<"t", "i", "m", "e">>), str(lowTemp), str(midTemp), str(highTemp)>>

\* row[name] for a row of newdatatable: .loc assigns the list by position
Cell(row, name) ==
    row[CHOOSE k \in 1..Len(OutColumns) : OutColumns[k] = name]

\* lines 92 and 94 left reading lowdata
TableOf_lowOnly(c) == lowdata

\* the table the loop at line 90, 92 or 94 reads
TableOf(c) ==
    CASE c = "low" -> lowdata [] c = "mid" -> middata [] c = "high" -> highdata

NoFile == [exists |-> FALSE, rows |-> <<>>]

-----------------------------------------------------------------------------
(* main *)

Init ==
    /\ \/ /\ readable = FALSE
          /\ spreadsheet = NoTable
       \/ /\ readable = TRUE
          /\ \E cols \in Layouts :
                \E len \in 0..RowBound(cols) :
                   \E cells \in [1..len -> CellsOver(cols)] :
                      spreadsheet = MakeTable(cols, cells)
    /\ sf \in {filter_sex(s) : s \in SexInputs}
    /\ pc = "load"
    /\ err = ""
    /\ datatable = NoTable
    /\ lowdata = NoTable /\ middata = NoTable /\ highdata = NoTable
    /\ dayNames = <<>> /\ d = 0 /\ cond = "low" /\ n = 0 /\ i = 0
    /\ newdatatable = <<>>
    /\ origin = <<>>
    /\ outfile = NoFile
    /\ printed = FALSE
    /\ steps = <<>>

convertVars == <<dayNames, d, cond, n, i, newdatatable, origin>>
filterVars == <<lowdata, middata, highdata>>

\* line 162, read_excel succeeds
Load ==
    /\ pc = "load"
    /\ readable
    /\ datatable' = spreadsheet
    /\ pc' = "filter"
    /\ steps' = Append(steps, "load")
    /\ UNCHANGED <<readable, spreadsheet, sf, err, filterVars, convertVars, outfile, printed>>

\* line 162, read_excel raises (no such file, not a spreadsheet)
LoadFail ==
    /\ pc = "load"
    /\ ~readable
    /\ pc' = "error"
    /\ err' = "LoadError"
    /\ UNCHANGED <<readable, spreadsheet, sf, datatable, filterVars, convertVars,
                   outfile, printed, steps>>

\* line 164 inside a try whose except carries on with empty tables
Filter_swallow ==
    /\ pc = "filter"
    /\ LET r == filter_datatable(datatable, sf)
       IN  IF r.error # ""
           THEN /\ lowdata' = NoTable
                /\ middata' = NoTable
                /\ highdata' = NoTable
                /\ pc' = "convert"
                /\ UNCHANGED <<err, steps>>
           ELSE /\ lowdata' = r.low
                /\ middata' = r.mid
                /\ highdata' = r.high
                /\ pc' = "convert"
                /\ steps' = Append(steps, "filter")
                /\ err' = err
    /\ UNCHANGED <<readable, spreadsheet, sf, datatable, convertVars, outfile, printed>>

\* line 164
Filter ==
    /\ pc = "filter"
    /\ LET r == filter_datatable(datatable, sf)
       IN  IF r.error # ""
           THEN /\ pc' = "error"
                /\ err' = r.error
                /\ UNCHANGED <<filterVars, steps>>
           ELSE /\ lowdata' = r.low
                /\ middata' = r.mid
                /\ highdata' = r.high
                /\ pc' = "convert"
                /\ steps' = Append(steps, "filter")
                /\ err' = err
    /\ UNCHANGED <<readable, spreadsheet, sf, datatable, convertVars, outfile, printed>>

\* Entering the loop of `c` for dayNames[dd]: line 90, 92 or 94 evaluates
\* its range() once, which raises KeyError when the table lacks the column.
EnterLoop(dd, c) ==
    IF ~HasColumn(TableOf(c), dayNames'[dd])
    THEN /\ pc' = "error"
         /\ err' = "KeyError"
         /\ UNCHANGED <<d, cond, n, i>>
    ELSE /\ d' = dd
         /\ cond' = c
         /\ n' = RangeLen(ColumnSum(TableOf(c), dayNames'[dd]))
         /\ i' = 0
         /\ pc' = "loop"
         /\ err' = err

\* lines 83-90: the header, and the first loop entered if there is a day
ConvertBegin ==
    /\ pc = "convert"
    /\ dayNames' = DayNamesOf(lowdata)
    /\ newdatatable' = <<>>
    /\ origin' = <<>>
    /\ IF dayNames' = <<>>
       THEN /\ pc' = "save"
            /\ steps' = Append(steps, "expand")
            /\ UNCHANGED <<d, cond, n, i, err>>
       ELSE /\ EnterLoop(1, "low")
            /\ steps' = steps
    /\ UNCHANGED <<readable, spreadsheet, sf, datatable, filterVars, outfile, printed>>

\* line 91, 93 or 95: one row appended
Emit ==
    /\ pc = "loop"
    /\ i < n
    /\ newdatatable' = Append(newdatatable, NewRow(dayNames[d], cond))
    /\ origin' = Append(origin, [day |-> d, cond |-> cond])
    /\ i' = i + 1
    /\ UNCHANGED <<readable, spreadsheet, sf, pc, err, datatable, filterVars,
                   dayNames, d, cond, n, outfile, printed, steps>>

\* the loops nested the other way round: for each condition, for each day
NextLoop_condOuter ==
    /\ pc = "loop"
    /\ i = n
    /\ dayNames' = dayNames
    /\ IF d < Len(dayNames) THEN EnterLoop(d + 1, cond) /\ steps' = steps
       ELSE IF cond = "low" THEN EnterLoop(1, "mid") /\ steps' = steps
       ELSE IF cond = "mid" THEN EnterLoop(1, "high") /\ steps' = steps
       ELSE /\ pc' = "save"
            /\ steps' = Append(steps, "expand")
            /\ UNCHANGED <<d, cond, n, i, err>>
    /\ UNCHANGED <<readable, spreadsheet, sf, datatable, filterVars, newdatatable,
                   origin, outfile, printed>>

\* a loop is exhausted: the next one is entered, or line 97 returns
NextLoop ==
    /\ pc = "loop"
    /\ i = n
    /\ dayNames' = dayNames
    /\ IF cond = "low" THEN EnterLoop(d, "mid") /\ steps' = steps
       ELSE IF cond = "mid" THEN EnterLoop(d, "high") /\ steps' = steps
       ELSE IF d < Len(dayNames) THEN EnterLoop(d + 1, "low") /\ steps' = steps
       ELSE /\ pc' = "save"
            /\ steps' = Append(steps, "expand")
            /\ UNCHANGED <<d, cond, n, i, err>>
    /\ UNCHANGED <<readable, spreadsheet, sf, datatable, filterVars, newdatatable,
                   origin, outfile, printed>>

\* lines 168-169: to_csv writes the table, then the message is printed
Save ==
    /\ pc = "save"
    /\ outfile' = [exists |-> TRUE, rows |-> newdatatable]
    /\ printed' = TRUE
    /\ pc' = "done"
    /\ steps' = Append(steps, "write")
    /\ UNCHANGED <<readable, spreadsheet, sf, err, datatable, filterVars, convertVars>>

\* line 168: to_csv cannot open the destination
SaveFail ==
    /\ pc = "save"
    /\ pc' = "error"
    /\ err' = "WriteError"
    /\ UNCHANGED <<readable, spreadsheet, sf, datatable, filterVars, convertVars,
                   outfile, printed, steps>>

Next ==
    \/ Load
    \/ LoadFail
    \/ Filter
    \/ ConvertBegin
    \/ Emit
    \/ NextLoop
    \/ Save
    \/ SaveFail

Spec == Init /\ [][Next]_vars

-----------------------------------------------------------------------------
(* convert_datatable on its own, called with any three tables *)

ConvertLayouts == { <<Day3>>, <<Day10>>, <<Day10, Day3>> }

InitConvert ==
    /\ readable = TRUE
    /\ spreadsheet = NoTable
    /\ sf = None
    /\ pc = "convert"
    /\ err = ""
    /\ datatable = NoTable
    /\ \E cl \in ConvertLayouts, cm \in ConvertLayouts, ch \in ConvertLayouts :
          \E rl \in CellsOver(cl), rm \in CellsOver(cm), rh \in CellsOver(ch) :
             /\ lowdata = MakeTable(cl, <<rl>>)
             /\ middata = MakeTable(cm, <<rm>>)
             /\ highdata = MakeTable(ch, <<rh>>)
    /\ dayNames = <<>> /\ d = 0 /\ cond = "low" /\ n = 0 /\ i = 0
    /\ newdatatable = <<>>
    /\ origin = <<>>
    /\ outfile = NoFile
    /\ printed = FALSE
    /\ steps = <<"load", "filter">>

NextConvert ==
    \/ ConvertBegin
    \/ Emit
    \/ NextLoop

SpecConvert == InitConvert /\ [][NextConvert]_vars

-----------------------------------------------------------------------------
(* Properties *)

RECURSIVE SumTo(_, _)
SumTo(F(_), k) == IF k = 0 THEN 0 ELSE F(k) + SumTo(F, k - 1)

\* main has reached this step
Did(step) == \E k \in 1..Len(steps) : steps[k] = step

\* Row k of the loaded table passes the filter for temperature t.
SexPasses(k) == sf = None \/ datatable.rows[k].cells[sex] = sf.text
Excluded(k) ==
    HasColumn(datatable, exclude) /\ datatable.rows[k].cells[exclude] = 1
Passes(k, t) ==
    /\ SexPasses(k)
    /\ ~Excluded(k)
    /\ datatable.rows[k].cells[temp] = t

\* The sum of column cn over the loaded rows that pass the filter for t.
LevelSum(cn, t) ==
    SumTo(LAMBDA k : IF Passes(k, t) THEN datatable.rows[k].cells[cn] ELSE 0,
          Len(datatable.rows))

ThreeLevelSum(cn) ==
    LevelSum(cn, lowTemp) + LevelSum(cn, midTemp) + LevelSum(cn, highTemp)

\* The output rows appended for the day at position dd of dayNames.
RowsOfDay(dd) == Cardinality({k \in 1..Len(origin) : origin[k].day = dd})

\* The labels of the rows of a table.
Labels(table) == {table.rows[k].label : k \in 1..Len(table.rows)}

FilteredOf(t) ==
    CASE t = lowTemp -> lowdata [] t = midTemp -> middata [] t = highTemp -> highdata

TempOf(c) ==
    CASE c = "low" -> lowTemp [] c = "mid" -> midTemp [] c = "high" -> highTemp

Rank(c) == CASE c = "low" -> 1 [] c = "mid" -> 2 [] c = "high" -> 3

\* Position of a column in a table.
PosIn(table, cn) == CHOOSE k \in 1..Len(table.columns) : table.columns[k] = cn

\* C1 as stated: when convert_datatable returns, the number of output
\* rows is the sum, over every column of the raw table whose name starts
\* with 'Day' and over the three temperatures, of the column's values in the
\* rows passing the filter.
C1_AllDayColumns ==
    pc = "save" =>
        Len(newdatatable) =
            SumTo(LAMBDA c : IF isDay(datatable.columns[c])
                             THEN ThreeLevelSum(datatable.columns[c]) ELSE 0,
                  Len(datatable.columns))

\* C1 amended: when convert_datatable returns, the number of output
\* rows is that sum taken over the columns whose name starts with 'Day' and
\* does not contain 'eggs', and the rows emitted for each such column number
\* its low sum + mid sum + high sum.
C1_RowCount ==
    pc = "save" =>
        /\ Len(newdatatable) =
              SumTo(LAMBDA c : IF /\ isDay(datatable.columns[c])
                                  /\ ~hasEggs(datatable.columns[c])
                               THEN ThreeLevelSum(datatable.columns[c]) ELSE 0,
                    Len(datatable.columns))
        /\ dayNames = SelectSeq(datatable.columns,
                                LAMBDA cn : isDay(cn) /\ ~hasEggs(cn))
        /\ \A dd \in 1..Len(dayNames) :
              RowsOfDay(dd) = ThreeLevelSum(dayNames[dd])

\* A finished conversion with a sex filter, rows of two temperatures, and a
\* Day column with 'eggs' in its name holding a count.
C1_Witness ==
    /\ pc = "done"
    /\ Len(newdatatable) >= 2
    /\ \E a \in 1..Len(origin), b \in 1..Len(origin) :
          origin[a].cond # origin[b].cond
    /\ HasColumn(datatable, Day3eggs)
    /\ \E k \in 1..Len(datatable.rows) : datatable.rows[k].cells[Day3eggs] > 0

\* C2: in every state every output row has One in exactly one of the columns
\* '23', '30', '37' and Blank in the other two, and the One stands in the
\* column of the condition whose loop appended the row.
C2_OneCondition ==
    /\ Len(origin) = Len(newdatatable)
    /\ \A k \in 1..Len(newdatatable) :
          LET row == newdatatable[k]
              own == str(TempOf(origin[k].cond))
          IN  /\ Len(row) = Len(OutColumns)
              /\ Cell(row, own) = One
              /\ \A t \in Temps : str(t) # own => Cell(row, str(t)) = Blank
              /\ Cardinality({t \in Temps : Cell(row, str(t)) = One}) = 1

\* The table is still being built and holds rows of all three conditions.
C2_Witness ==
    /\ pc = "loop"
    /\ \A c \in {"low", "mid", "high"} :
          \E k \in 1..Len(origin) : origin[k].cond = c

\* C3: the days are taken in the column order of the low table, an output
\* row of an earlier day stands before every row of a later day, and within
\* a day low rows stand before mid rows before high rows.
C3_Order ==
    /\ \A a \in 1..Len(dayNames), b \in 1..Len(dayNames) :
          a < b => PosIn(lowdata, dayNames[a]) < PosIn(lowdata, dayNames[b])
    /\ \A a \in 1..Len(origin), b \in 1..Len(origin) :
          a < b =>
             \/ origin[a].day < origin[b].day
             \/ /\ origin[a].day = origin[b].day
                /\ Rank(origin[a].cond) <= Rank(origin[b].cond)

\* Rows of two days, the first of them with mid rows, the second with low
\* rows, in a table whose Day10 column stands before Day3.
C3_Witness ==
    /\ dayNames = <<Day10, Day3>>
    /\ \E a \in 1..Len(origin), b \in 1..Len(origin) :
          /\ origin[a].day = 1 /\ origin[a].cond \in {"mid", "high"}
          /\ origin[b].day = 2 /\ origin[b].cond = "low"

\* C4: when filter_datatable returns, a raw row is in the table of
\* temperature t exactly when its temp is t, it passes the sex filter, and
\* it is not a row of a table with an exclude column whose exclude is 1;
\* so a row with exclude 1 is in none of the three tables; and the output
\* convert_datatable returns has no more rows than the Day counts of the
\* rows that are not excluded.
C4_Exclude ==
    /\ pc = "convert" =>
          \A t \in Temps :
             LET labels == Labels(FilteredOf(t))
             IN  \A k \in 1..Len(datatable.rows) :
                    /\ (datatable.rows[k].label \in labels) <=> Passes(k, t)
                    /\ Excluded(k) => datatable.rows[k].label \notin labels
    /\ pc = "save" =>
          Len(newdatatable) <=
              SumTo(LAMBDA c :
                       IF isDay(datatable.columns[c])
                       THEN SumTo(LAMBDA k : IF Excluded(k) THEN 0
                                             ELSE datatable.rows[k].cells[datatable.columns[c]],
                                  Len(datatable.rows))
                       ELSE 0,
                    Len(datatable.columns))

\* A filtered table with an excluded row holding a count and a kept row
\* whose exclude value is 2.
C4_Witness ==
    /\ pc = "done"
    /\ HasColumn(datatable, exclude)
    /\ HasColumn(datatable, Day3)
    /\ \E a \in 1..Len(datatable.rows), b \in 1..Len(datatable.rows) :
          /\ datatable.rows[a].cells[exclude] = 1
          /\ datatable.rows[a].cells[Day3] > 0
          /\ datatable.rows[b].cells[exclude] = 2
          /\ datatable.rows[b].label \in
                Labels(FilteredOf(datatable.rows[b].cells[temp]))

\* The sex filter is given, the table has a sex column, no row has that sex.
NoRowOfThatSex ==
    /\ sf # None
    /\ HasColumn(spreadsheet, sex)
    /\ \A k \in 1..Len(spreadsheet.rows) : spreadsheet.rows[k].cells[sex] # sf.text

\* C5: with a sex selector that matches no row of a table with a sex column,
\* filter_datatable and convert_datatable raise nothing, the three filtered
\* tables are empty and the output has no rows.
C5_NoMatch ==
    NoRowOfThatSex =>
        /\ err \notin {"AttributeError", "KeyError"}
        /\ pc \notin {"load", "filter"} /\ err # "LoadError" => Did("filter")
        /\ Did("filter") =>
              lowdata.rows = <<>> /\ middata.rows = <<>> /\ highdata.rows = <<>>
        /\ pc \in {"save", "done"} \/ err = "WriteError" => Did("expand")
        /\ newdatatable = <<>>
        /\ outfile.rows = <<>>

\* Such a run finished, on a table with two rows holding counts.
C5_Witness ==
    /\ NoRowOfThatSex
    /\ pc = "done"
    /\ Len(spreadsheet.rows) >= 2
    /\ HasColumn(spreadsheet, Day3)
    /\ \A k \in 1..Len(spreadsheet.rows) : spreadsheet.rows[k].cells[Day3] > 0

\* C6: when filter_datatable returns, no column of the three filtered
\* tables has 'eggs' in its name; while convert_datatable runs and when it
\* returns, no column of the output has, and no output row was emitted for
\* a column with 'eggs' in its name.
C6_NoEggs ==
    /\ pc = "convert" =>
          \A t \in Temps :
             /\ \A cn \in Range(FilteredOf(t).columns) : ~hasEggs(cn)
             /\ \A k \in 1..Len(FilteredOf(t).rows) :
                   \A cn \in DOMAIN FilteredOf(t).rows[k].cells : ~hasEggs(cn)
    /\ pc \in {"loop", "save"} =>
          /\ \A cn \in Range(OutColumns) : ~hasEggs(cn)
          /\ \A k \in 1..Len(dayNames) : ~hasEggs(dayNames[k])
          /\ \A k \in 1..Len(origin) : ~hasEggs(dayNames[origin[k].day])

\* A finished run with output rows on a table whose column Day3eggs holds a
\* count in a row that passes the filter.
C6_Witness ==
    /\ pc = "done"
    /\ Len(newdatatable) > 0
    /\ HasColumn(datatable, Day3eggs)
    /\ \E k \in 1..Len(datatable.rows) :
          /\ datatable.rows[k].cells[Day3eggs] > 0
          /\ lowdata.rows # <<>>
          /\ datatable.rows[k].label \in Labels(lowdata)

\* A sex filter is given and the table has no sex column.
SexColumnMissing == sf # None /\ ~HasColumn(spreadsheet, sex)

\* C7: with a sex filter and no sex column, filter_datatable raises: no
\* filtered table is returned, nothing is expanded, written or printed.
C7_MissingSexColumn ==
    SexColumnMissing =>
        /\ pc \in {"load", "filter", "error"}
        /\ pc = "error" => err \in {"LoadError", "AttributeError"}
        /\ pc = "error" /\ Did("load") => err = "AttributeError"
        /\ ~Did("filter")
        /\ lowdata = NoTable /\ middata = NoTable /\ highdata = NoTable
        /\ newdatatable = <<>>
        /\ outfile = NoFile
        /\ ~printed

\* The run ended in filter_datatable on a loaded table with rows.
C7_Witness ==
    /\ SexColumnMissing
    /\ pc = "error"
    /\ err = "AttributeError"
    /\ Len(datatable.rows) >= 1

\* The Day columns of a table.
DaySet(table) == {cn \in Range(table.columns) : isDay(cn)}

\* C8 as stated: convert_datatable returns only when its three tables have
\* the same Day columns; when one of them lacks a Day column another has,
\* it raises.
C8_MisalignedRaises ==
    Did("expand") =>
        /\ DaySet(lowdata) = DaySet(middata)
        /\ DaySet(lowdata) = DaySet(highdata)

\* C9: the time of every output row is the last character of the name of
\* the Day column it was emitted for, one character long; for Day10 it is
\* '0'.
C9_Time ==
    \A k \in 1..Len(newdatatable) :
        LET day == dayNames[origin[k].day]
            time == Cell(newdatatable[k], OutColumns[1])
        IN  /\ Len(time) = 1
            /\ time[1] = day[Len(day)]
            /\ day = Day10 => time = <<"0">>

\* Output rows emitted for Day10 and for Day3.
C9_Witness ==
    /\ \E k \in 1..Len(origin) : dayNames[origin[k].day] = Day10
    /\ \E k \in 1..Len(origin) : dayNames[origin[k].day] = Day3

AllSteps == <<"load", "filter", "expand", "write">>

\* C10: the steps of main complete in the order load, filter, expand, write,
\* each at most once; the file is written and the message printed only
\* after the other three completed, and the file holds the whole output
\* table; when load, filter or expand raised, no file is written and
\* nothing is printed.
C10_Pipeline ==
    /\ Len(steps) <= Len(AllSteps)
    /\ steps = SubSeq(AllSteps, 1, Len(steps))
    /\ outfile # NoFile =>
          /\ steps = AllSteps
          /\ outfile = [exists |-> TRUE, rows |-> newdatatable]
          /\ pc = "done"
    /\ printed => outfile # NoFile
    /\ pc = "done" => outfile # NoFile /\ printed
    /\ pc = "error" =>
          /\ err \in {"LoadError", "AttributeError", "KeyError", "WriteError"}
          /\ outfile = NoFile
          /\ ~printed
          /\ ~Did("write")
    /\ pc = "convert" \/ pc = "loop" => steps = <<"load", "filter">>
    /\ pc = "save" => steps = <<"load", "filter", "expand">>

\* A run that wrote a table of at least two rows.
C10_Witness ==
    /\ pc = "done"
    /\ printed
    /\ Len(outfile.rows) >= 2

====
